---- MODULE Spec2Model ----
(***************************************************************************)
(* Local-first persistence and background sync of the client collection:   *)
(* StorageService (services/storageService.ts, kept in src/unnamed/part_005*)
(* lines 238-745) and the Drive client it calls                            *)
(* (src/services/googleDriveService.ts).                                   *)
(*                                                                         *)
(* The event loop is modelled as an interleaving of steps: every handler   *)
(* runs from its entry to its first await in one step, and every await is  *)
(* a point where another handler, timer callback or remote response may    *)
(* run.  An async call that is awaiting a remote response is a record in   *)
(* tasks.                                                                  *)
(***************************************************************************)
EXTENDS Integers, Sequences, FiniteSets, Bags, TLC

VARIABLES
    isOnline,          \* part_005:248
    accessToken,       \* part_005:249
    saveTimeout,       \* part_005:250  "null" | "armed" | "stale" (id of a timer that fired or was cleared)
    orphanTimers,      \* armed debounce timers whose id saveTimeout no longer holds
    pendingClients,    \* part_005:251
    lastKnownCount,    \* part_005:252
    failedSaveQueue,   \* part_005:253
    retryTimer,        \* part_005:254  [state, delay]
    retryDelay,        \* part_005:255
    lsClients,         \* localStorage fittrack_clients
    lsSynced,          \* localStorage fittrack_last_synced
    lsDriveSync,       \* localStorage fittrack_last_drive_sync
    lsToken,           \* localStorage fittrack_access_token
    drive,             \* the remote data file: None or Some([clients, userProfile, modifiedTime])
    navOnline,         \* navigator.onLine
    listeners,         \* number of 'online'/'offline' listener pairs registered
    now,               \* Date.now(), ms
    tasks,             \* async calls awaiting a remote response
    lastEvent,         \* the CustomEvent dispatched on window last
    overwrote,         \* history: the upload path that replaced a remote file newer than the baseline
    savesLeft,         \* bound: saveClients calls still to be made
    nonEmptySave,      \* history: "yes" once a non-empty collection was saved, "deleted" once deleteAccount followed it
    burst,             \* history: the saveClients calls of the current debounce window
    offlineSave,       \* history: the last saveClients accepted while offline
    last,              \* history: the step taken last
    driveAccessToken,  \* googleDriveService.ts:12
    cachedFolderId,    \* googleDriveService.ts:13
    cachedFileId,      \* googleDriveService.ts:14
    driveCall,         \* the Drive client call under way, or the last one made
    liveFiles,         \* the remote: number of documents in the folder that carry the data-file name
    renamed,           \* the remote: contents of the documents a soft delete has renamed
    lsUser             \* localStorage fittrack_user: None or Some(the owner's profile)

vars == <<isOnline, accessToken, saveTimeout, orphanTimers, pendingClients,
          lastKnownCount, failedSaveQueue, retryTimer, retryDelay, lsClients,
          lsSynced, lsDriveSync, lsToken, drive, navOnline, listeners, now,
          tasks, lastEvent, overwrote, savesLeft, nonEmptySave, burst, offlineSave, last,
          driveAccessToken, cachedFolderId, cachedFileId, driveCall, liveFiles, renamed,
          lsUser>>

\* the state of the Drive client module
DriveClient == <<driveAccessToken, cachedFolderId, cachedFileId, driveCall>>

-----------------------------------------------------------------------------
(* Bounds of the model *)

MaxSaves == 2
MaxConflictSaves == 1
MaxTime == 10000
TickMs == 5000
MaxTasks == 2
MaxInit == 1
MaxTimerSaves == 3
MaxCalls == 5

(* Program constants *)

BaseRetryDelay == 2000
MaxRetryDelay == 30000
ConflictToleranceMs == 5000
SyncToleranceMs == 1000

ENABLE_GOOGLE_LOGIN == TRUE

-----------------------------------------------------------------------------
(* Values *)

None == <<>>
Some(x) == <<x>>
NoTime == -1
NoToken == "null"
Token == "tok"

\* Client[]: ordered collections of records with stable unique ids
Collections == {<<>>, <<"a">>, <<"b">>, <<"a", "b">>}

\* JSON.stringify of a Client[]: the text "[", the records in order, "]"
JSONstringify(c) == <<"[">> \o c \o <<"]">>

\* JSON.parse of a stored text: the array between the brackets; any other text
\* parses to a value that is not an array
JSONparse(s) ==
    IF Len(s) >= 2 /\ s[1] = "[" /\ s[Len(s)] = "]"
    THEN [isArray |-> TRUE, items |-> SubSeq(s, 2, Len(s) - 1)]
    ELSE [isArray |-> FALSE, items |-> <<>>]

ArrayIsArray(v) == v.isArray

\* the document handed to saveToDrive (part_005:529-533, 599-603): the records
\* and the owner's profile, null when no profile is stored
BackupData(c, user) == [clients |-> c, userProfile |-> user]

\* JSON.stringify(data, null, 2), the body of both content uploads
\* (googleDriveService.ts:205, 218, 253)
StringifyData(data) ==
    <<"{", "clients">> \o JSONstringify(data.clients) \o
    <<"userProfile", IF data.userProfile = None THEN "null" ELSE data.userProfile[1], "}">>

ResponseJsonWithoutOwner(body) ==
    LET close == CHOOSE i \in 1..Len(body) : body[i] = "]" IN
    [clients |-> SubSeq(body, 4, close - 1), userProfile |-> None]

\* response.json() of a document's body (googleDriveService.ts:187)
ResponseJson(body) ==
    LET close == CHOOSE i \in 1..Len(body) : body[i] = "]" IN
    [clients |-> SubSeq(body, 4, close - 1),
     userProfile |-> IF body[close + 2] = "null" THEN None ELSE Some(body[close + 2])]

\* error.message of a failed Drive request
ErrNetwork == "Failed to fetch"
ErrAuth == "Request had invalid authentication credentials."
ErrServer == "Backend Error"
ErrNullClients == "Cannot read properties of null (reading 'reduce')"
ErrNotFound == "File not found: clients_data.json."
ErrNoToken == "No access token available"
UploadErrors == {ErrNetwork, ErrAuth, ErrServer}
UploadOutcomes == {"ok"} \cup UploadErrors
ProbeOutcomes == {"ok", "fail"}

MessageIncludes(msg, needle) ==
    <<msg, needle>> \in {<<ErrAuth, "invalid authentication credentials">>,
                         <<ErrNotFound, "File not found">>}

IsAuthError(msg) ==
    \/ MessageIncludes(msg, "401")
    \/ MessageIncludes(msg, "Unauthorized")
    \/ MessageIncludes(msg, "invalid authentication credentials")

Min(a, b) == IF a < b THEN a ELSE b

Spawn(bag, t) == bag (+) SetToBag({t})
Finish(bag, t) == bag (-) SetToBag({t})
InFlight == BagCardinality(tasks)

NoEvent == [type |-> "none", lastSyncTime |-> 0, driveTime |-> 0]
ClientsUpdated == [type |-> "clients-updated", lastSyncTime |-> 0, driveTime |-> 0]
\* detail of the sync-conflict event, part_005:519-524
SyncConflict(lastSyncTime, driveTime) ==
    [type |-> "sync-conflict", lastSyncTime |-> lastSyncTime, driveTime |-> driveTime]

NoBurst == [payloads |-> <<>>, clean |-> FALSE, phase |-> "none", pushes |-> 0, sent |-> {}]

\* no call of the Drive client has been made
NoCall ==
    [fn |-> "none", pc |-> "done", retry |-> FALSE, data |-> None, calls |-> 0,
     sequences |-> 0, attempts |-> 0, accepted |-> FALSE, failures |-> <<>>,
     result |-> "none", returned |-> None, message |-> ""]

\* the history records the calls whose argument and return value a caller sees
Step(op, clients, ret, out) ==
    IF op \in {"saveClients", "loadClients", "loadDownload", "loadMeta"}
    THEN [op |-> op, clients |-> clients, ret |-> ret, out |-> out]
    ELSE [op |-> "-", clients |-> None, ret |-> None, out |-> ""]

-----------------------------------------------------------------------------
(* Initial state: the module has just been loaded; localStorage and the    *)
(* remote file are what an earlier session left.                           *)

Init ==
    /\ isOnline = FALSE
    /\ accessToken = NoToken
    /\ saveTimeout = "null"
    /\ orphanTimers = 0
    /\ pendingClients = None
    /\ lastKnownCount = 0
    /\ failedSaveQueue = <<>>
    /\ retryTimer = [state |-> "null", delay |-> 0]
    /\ retryDelay = BaseRetryDelay
    /\ \E c \in {None, Some(JSONstringify(<<"a">>))} :
          /\ lsClients = c
          /\ lsSynced = IF c = None THEN NoTime ELSE 0
    /\ lsDriveSync = NoTime
    /\ lsToken = NoToken
    /\ drive \in {None, Some([clients |-> <<"b">>, userProfile |-> Some("coach"), modifiedTime |-> 0])}
    /\ navOnline = TRUE
    /\ listeners = 0
    /\ now = 0
    /\ tasks = EmptyBag
    /\ lastEvent = NoEvent
    /\ overwrote = "none"
    /\ savesLeft = MaxSaves
    /\ nonEmptySave = "no"
    /\ burst = NoBurst
    /\ offlineSave = None
    /\ last = Step("init", None, None, "")
    /\ driveAccessToken = NoToken
    /\ cachedFolderId = None
    /\ cachedFileId = None
    /\ driveCall = NoCall
    /\ liveFiles = IF drive = None THEN 0 ELSE 1
    /\ renamed = {}
    /\ lsUser = Some("coach")

-----------------------------------------------------------------------------
(* Helpers shared by the handlers *)

HasToken == accessToken # NoToken

OrphansWithoutClear == IF saveTimeout = "armed" THEN orphanTimers + 1 ELSE orphanTimers

\* clearTimeout(saveTimeout) before the id is replaced (part_005:478-480): the
\* timer armed before is cancelled
OrphansAfterClear == orphanTimers

\* the id is dropped or replaced without clearTimeout (part_005:526, 542): a
\* timer that is still armed stays armed
OrphansAfterForget == IF saveTimeout = "armed" THEN orphanTimers + 1 ELSE orphanTimers

\* StorageService.retryFailedSaves up to its setTimeout (part_005:582-587, 631)
RetryFailedSaves(queue, timer, delay) ==
    IF Len(queue) = 0 THEN timer ELSE [state |-> "armed", delay |-> delay]

\* getFileMetadata (googleDriveService.ts:140-159): null when the file is
\* absent and null when any request of the probe fails
GetFileMetadata(outcome) ==
    IF outcome = "ok" /\ drive # None THEN Some(drive[1].modifiedTime) ELSE None

LoadFromDriveDespiteFailure(outcome) ==
    IF drive # None THEN Some(drive[1]) ELSE None

\* loadFromDrive (googleDriveService.ts:162-194): null when the file is
\* absent and null when any request fails
LoadFromDrive(outcome) ==
    IF outcome = "ok" /\ drive # None THEN Some(drive[1]) ELSE None

\* the number of data documents after a write that creates one when there is
\* none (googleDriveService.ts:208, 231-242)
LiveAfterWrite == IF liveFiles = 0 THEN 1 ELSE liveFiles

\* the remote keeps the bytes of an uploaded body (body: content,
\* googleDriveService.ts:218, 253); the model's document names what the bytes
\* hold: the items of the array and the profile, null for the text null
Held(body) ==
    LET close == CHOOSE i \in 1..Len(body) : body[i] = "]" IN
    [clients |-> SubSeq(body, 4, close - 1),
     userProfile |-> IF body[Len(body) - 1] = "null" THEN None ELSE Some(body[Len(body) - 1])]

\* the bytes a download of the document answers with (alt=media,
\* googleDriveService.ts:172-181)
BodyOf(doc) ==
    <<"{", "clients", "[">> \o doc.clients \o
    <<"]", "userProfile", IF doc.userProfile = None THEN "null" ELSE doc.userProfile[1], "}">>

\* the document a content upload of data leaves when it is accepted
\* (googleDriveService.ts:205-220, 245-255)
Written(data) ==
    LET held == Held(StringifyData(data)) IN
    Some([clients |-> held.clients, userProfile |-> held.userProfile, modifiedTime |-> now])

\* the file as saveToDrive leaves it on success (googleDriveService.ts:197-263)
Uploaded(c, user) == Written(BackupData(c, user))

\* the baseline of the conflict check (part_005:505-513)
LastSyncTime ==
    IF lsDriveSync # NoTime THEN lsDriveSync
    ELSE IF lsSynced # NoTime THEN lsSynced
    ELSE 0

\* the conflict test of the debounced push (part_005:517)
IsConflict(driveTime, lastSyncTime) == driveTime > lastSyncTime + ConflictToleranceMs

\* the synchronous part of loadClients (part_005:294-306)
LocalClients ==
    IF lsClients = None THEN <<>>
    ELSE IF ArrayIsArray(JSONparse(lsClients[1])) THEN JSONparse(lsClients[1]).items
    ELSE <<>>

\* whether an upload answered now replaces a remote file that is newer than the
\* baseline of the conflict check by more than the tolerance
OverwritesNewer == drive # None /\ IsConflict(drive[1].modifiedTime, LastSyncTime)

\* a call awaiting its reply; user: the profile loadUser() gave when the
\* argument of saveToDrive was built (part_005:531-535, 595-599); newer: the
\* upload was started while the remote file was already newer than the
\* baseline by more than the tolerance
Task(kind, pc, clients, meta) ==
    [kind |-> kind, pc |-> pc, clients |-> clients, meta |-> meta,
     user |-> IF pc = "upload" THEN lsUser ELSE None,
     newer |-> (pc = "upload" /\ OverwritesNewer)]

\* history: the first upload path that was started over such a remote file and
\* replaced it
Overwrote(t, kind, outcome) ==
    IF outcome = "ok" /\ t.newer /\ OverwritesNewer /\ overwrote = "none"
    THEN kind ELSE overwrote

-----------------------------------------------------------------------------
(* History bookkeeping (no effect on the program's state) *)

UploadTasks == {t \in BagToSet(tasks) : t.kind \in {"push", "retry", "flush"}}

\* nothing of the push machinery is under way
Quiet ==
    /\ UploadTasks = {}
    /\ orphanTimers = 0
    /\ saveTimeout # "armed"
    /\ pendingClients = None
    /\ failedSaveQueue = <<>>
    /\ retryTimer.state # "armed"

BurstAfterSave(c) ==
    IF saveTimeout = "armed" /\ burst.phase = "armed"
    THEN [burst EXCEPT !.payloads = Append(@, c)]
    ELSE [payloads |-> <<c>>, clean |-> Quiet, phase |-> "armed", pushes |-> 0, sent |-> {}]

\* a call of saveToDrive with payload c, seen from the last offline save
OfflineAfterCall(c) ==
    IF offlineSave # None /\ offlineSave[1].online /\ offlineSave[1].clients = c
    THEN Some([offlineSave[1] EXCEPT !.attempts = 1])
    ELSE offlineSave

BurstPhase(from, to) == IF burst.phase = from THEN [burst EXCEPT !.phase = to] ELSE burst

BurstAfterUpload(c, kind, outcome) ==
    IF burst.phase = "none" THEN burst
    ELSE [burst EXCEPT !.sent = @ \cup {c},
                       !.pushes = IF kind = "push" THEN @ + 1 ELSE @,
                       !.phase = IF kind = "push" /\ @ = "fired"
                                 THEN (IF outcome = "ok" THEN "pushed" ELSE "failed")
                                 ELSE @]

-----------------------------------------------------------------------------
(* StorageService.initialize and the listeners it registers *)

\* initialize(token), part_005:259-289
Initialize(token) ==
    /\ driveAccessToken' = IF token # NoToken THEN token
                           ELSE IF lsToken # NoToken THEN lsToken ELSE driveAccessToken
    /\ UNCHANGED <<cachedFolderId, cachedFileId, driveCall, liveFiles, renamed>>
    /\ UNCHANGED lsUser
    /\ listeners < MaxInit
    /\ LET stored == lsToken IN
       IF token # NoToken
       THEN /\ accessToken' = token
            /\ lsToken' = token
            /\ isOnline' = (ENABLE_GOOGLE_LOGIN /\ navOnline)
       ELSE IF stored # NoToken
       THEN /\ accessToken' = stored
            /\ isOnline' = (ENABLE_GOOGLE_LOGIN /\ navOnline)
            /\ UNCHANGED lsToken
       ELSE /\ accessToken' = token
            /\ UNCHANGED <<isOnline, lsToken>>
    /\ listeners' = listeners + 1
    /\ last' = Step("initialize", None, None, token)
    /\ UNCHANGED <<saveTimeout, orphanTimers, pendingClients, lastKnownCount,
                   failedSaveQueue, retryTimer, retryDelay, lsClients, lsSynced,
                   lsDriveSync, drive, navOnline, now, tasks, lastEvent, overwrote,
                   savesLeft, nonEmptySave, burst, offlineSave>>

\* the 'online' event: every registered listener runs part_005:276-283;
\* syncFromDrive runs to its first await (part_005:355-362)
NetOnline ==
    /\ UNCHANGED DriveClient
    /\ UNCHANGED <<liveFiles, renamed>>
    /\ UNCHANGED lsUser
    /\ ~navOnline
    /\ navOnline' = TRUE
    /\ IF listeners = 0
       THEN UNCHANGED <<isOnline, retryTimer, tasks, offlineSave>>
       ELSE /\ isOnline' = (ENABLE_GOOGLE_LOGIN /\ HasToken)
            /\ IF isOnline'
               THEN /\ InFlight + listeners <= MaxTasks
                    /\ retryTimer' = RetryFailedSaves(failedSaveQueue, retryTimer, retryDelay)
                    /\ tasks' = tasks (+) [t \in {Task("sync", "meta", None, None)} |-> listeners]
                    /\ offlineSave' = IF offlineSave = None THEN None
                                      ELSE Some([offlineSave[1] EXCEPT !.online = TRUE])
               ELSE UNCHANGED <<retryTimer, tasks, offlineSave>>
    /\ last' = Step("online", None, None, "")
    /\ UNCHANGED <<accessToken, saveTimeout, orphanTimers, pendingClients,
                   lastKnownCount, failedSaveQueue, retryDelay, lsClients, lsSynced,
                   lsDriveSync, lsToken, drive, listeners, now, lastEvent, overwrote,
                   savesLeft, nonEmptySave, burst>>

\* the 'offline' event, part_005:285-288
NetOffline ==
    /\ UNCHANGED DriveClient
    /\ UNCHANGED <<liveFiles, renamed>>
    /\ UNCHANGED lsUser
    /\ navOnline
    /\ navOnline' = FALSE
    /\ isOnline' = IF listeners = 0 THEN isOnline ELSE FALSE
    /\ last' = Step("offline", None, None, "")
    /\ UNCHANGED <<accessToken, saveTimeout, orphanTimers, pendingClients,
                   lastKnownCount, failedSaveQueue, retryTimer, retryDelay, lsClients,
                   lsSynced, lsDriveSync, lsToken, drive, listeners, now, tasks,
                   lastEvent, overwrote, savesLeft, nonEmptySave, burst, offlineSave>>

-----------------------------------------------------------------------------
(* StorageService.saveClients, part_005:454-554 *)

RejectsShrinking(c) == Len(c) < lastKnownCount

RejectsNothing(c) == FALSE

\* the empty-array guard, part_005:457
RejectsSave(c) == Len(c) = 0 /\ lastKnownCount > 0

\* the online gate of the debounced push, part_005:476
PushGate == isOnline /\ HasToken

\* history: how the saveClients call just before this step ended
AfterSave == IF last.op = "saveClients" THEN last.out ELSE "-"

\* history: the collection the caller's run of saveClients calls left in force
InForce == IF last.op = "saveClients" THEN last.ret ELSE None

\* the body of the call, up to the setTimeout: part_005:455-487
SaveClientsBody(c) ==
    /\ UNCHANGED DriveClient
    /\ UNCHANGED <<liveFiles, renamed>>
    /\ UNCHANGED lsUser
    /\ savesLeft > 0
    /\ savesLeft' = savesLeft - 1
    /\ nonEmptySave' = IF Len(c) > 0 THEN "yes" ELSE nonEmptySave
    /\ IF RejectsSave(c)
       THEN /\ last' = Step("saveClients", Some(c), InForce, "rejected")
            /\ UNCHANGED <<lastKnownCount, lsClients, lsSynced, saveTimeout, orphanTimers,
                           pendingClients, burst, offlineSave>>
       ELSE /\ lastKnownCount' = IF Len(c) > 0 THEN Len(c) ELSE lastKnownCount
            /\ lsClients' = Some(JSONstringify(c))
            /\ lsSynced' = now
            /\ IF PushGate
               THEN /\ orphanTimers' = OrphansAfterClear
                    /\ saveTimeout' = "armed"
                    /\ pendingClients' = Some(c)
                    /\ burst' = BurstAfterSave(c)
                    /\ offlineSave' = None
                    /\ last' = Step("saveClients", Some(c), Some(c), "debounced")
               ELSE /\ offlineSave' = IF isOnline THEN None
                                      ELSE Some([clients |-> c, online |-> FALSE, attempts |-> 0])
                    /\ last' = Step("saveClients", Some(c), Some(c), "local")
                    /\ UNCHANGED <<saveTimeout, orphanTimers, pendingClients, burst>>
    /\ UNCHANGED <<isOnline, accessToken, failedSaveQueue, retryTimer,
                   retryDelay, lsDriveSync, drive, navOnline, listeners,
                   now, lastEvent, overwrote>>

\* a call of saveClients by the application
SaveClients(c) ==
    /\ SaveClientsBody(c)
    /\ UNCHANGED <<lsToken, tasks>>

\* the debounce timer fires: part_005:486-492, up to the await of getFileMetadata
SaveTimerFire(orphan) ==
    /\ UNCHANGED DriveClient
    /\ UNCHANGED <<liveFiles, renamed>>
    /\ UNCHANGED lsUser
    /\ IF orphan
       THEN /\ orphanTimers > 0
            /\ orphanTimers' = orphanTimers - 1
            /\ UNCHANGED saveTimeout
       ELSE /\ saveTimeout = "armed"
            /\ saveTimeout' = "stale"
            /\ UNCHANGED orphanTimers
    /\ IF pendingClients = None
       THEN /\ UNCHANGED tasks
            /\ burst' = IF orphan THEN burst ELSE BurstPhase("armed", "nopending")
            /\ last' = Step("saveTimer", None, None, "nopending")
       ELSE /\ InFlight < MaxTasks
            /\ tasks' = Spawn(tasks, Task("push", "meta", None, None))
            /\ burst' = IF orphan THEN burst ELSE BurstPhase("armed", "fired")
            /\ last' = Step("saveTimer", pendingClients, None, "probe")
    /\ UNCHANGED <<isOnline, accessToken, pendingClients, lastKnownCount,
                   failedSaveQueue, retryTimer, retryDelay, lsClients, lsSynced,
                   lsDriveSync, lsToken, drive, navOnline, listeners, now, lastEvent,
                   overwrote, savesLeft, nonEmptySave, offlineSave>>

\* getFileMetadata is answered: the conflict check and the call of saveToDrive,
\* part_005:492-535
PushMetadata(t, outcome) ==
    /\ UNCHANGED DriveClient
    /\ UNCHANGED <<liveFiles, renamed>>
    /\ UNCHANGED lsUser
    /\ BagIn(t, tasks)
    /\ t.kind = "push" /\ t.pc = "meta"
    /\ LET metadata == GetFileMetadata(outcome)
           lastSyncTime == LastSyncTime
       IN  IF metadata # None /\ IsConflict(metadata[1], lastSyncTime)
           THEN /\ lastEvent' = SyncConflict(lastSyncTime, metadata[1])
                /\ saveTimeout' = "null"
                /\ orphanTimers' = OrphansAfterForget
                /\ tasks' = Finish(tasks, t)
                /\ burst' = BurstPhase("fired", "conflict")
                /\ last' = Step("pushMeta", pendingClients, None, "conflict")
                /\ UNCHANGED offlineSave
           ELSE IF pendingClients = None
           THEN \* saveToDrive throws on data.clients.reduce; the catch finds nothing pending
                /\ tasks' = Finish(tasks, t)
                /\ burst' = BurstPhase("fired", "nopending")
                /\ last' = Step("pushMeta", None, None, ErrNullClients)
                /\ UNCHANGED <<lastEvent, saveTimeout, orphanTimers, offlineSave>>
           ELSE /\ tasks' = Spawn(Finish(tasks, t), Task("push", "upload", pendingClients, metadata))
                /\ offlineSave' = OfflineAfterCall(pendingClients[1])
                /\ last' = Step("pushMeta", pendingClients, None, "upload")
                /\ UNCHANGED <<lastEvent, saveTimeout, orphanTimers, burst>>
    /\ UNCHANGED <<isOnline, accessToken, pendingClients, lastKnownCount,
                   failedSaveQueue, retryTimer, retryDelay, lsClients, lsSynced,
                   lsDriveSync, lsToken, drive, navOnline, listeners, now, overwrote,
                   savesLeft, nonEmptySave>>

QueueAtHead(queue, clients) == <<clients>> \o queue

\* failedSaveQueue.push, part_005:547
QueueAfterFailure(queue, clients) == Append(queue, clients)

DriveSyncKept(newModifiedTime) == lsDriveSync

\* the drive-sync time stored after a successful upload (part_005:539): the
\* modifiedTime saveToDrive returned
DriveSyncAfterPush(newModifiedTime) == newModifiedTime

\* saveToDrive is answered: part_005:531-551
PushUpload(t, outcome) ==
    /\ UNCHANGED DriveClient
    /\ liveFiles' = IF outcome = "ok" THEN LiveAfterWrite ELSE liveFiles
    /\ UNCHANGED renamed
    /\ UNCHANGED lsUser
    /\ BagIn(t, tasks)
    /\ t.kind = "push" /\ t.pc = "upload"
    /\ tasks' = Finish(tasks, t)
    /\ overwrote' = Overwrote(t, "push", outcome)
    /\ burst' = BurstAfterUpload(t.clients[1], "push", outcome)
    /\ last' = Step("pushUpload", t.clients, pendingClients, outcome)
    /\ IF outcome = "ok"
       THEN /\ drive' = Uploaded(t.clients[1], t.user)
            /\ lsDriveSync' = DriveSyncAfterPush(Uploaded(t.clients[1], t.user)[1].modifiedTime)
            /\ pendingClients' = None
            /\ saveTimeout' = "null"
            /\ orphanTimers' = OrphansAfterForget
            /\ UNCHANGED <<failedSaveQueue, retryTimer>>
       ELSE /\ IF pendingClients # None
               THEN /\ failedSaveQueue' = QueueAfterFailure(failedSaveQueue, pendingClients[1])
                    /\ pendingClients' = None
                    /\ retryTimer' = RetryFailedSaves(failedSaveQueue', retryTimer, retryDelay)
               ELSE UNCHANGED <<failedSaveQueue, pendingClients, retryTimer>>
            /\ UNCHANGED <<drive, lsDriveSync, saveTimeout, orphanTimers>>
    /\ UNCHANGED <<isOnline, accessToken, lastKnownCount, retryDelay, lsClients,
                   lsSynced, lsToken, navOnline, listeners, now, lastEvent, savesLeft, nonEmptySave,
                   offlineSave>>

-----------------------------------------------------------------------------
(* StorageService.retryFailedSaves, part_005:582-632 *)

\* the retry timer fires: part_005:587-599, up to the await of saveToDrive
RetryTimerFire ==
    /\ UNCHANGED DriveClient
    /\ UNCHANGED <<liveFiles, renamed>>
    /\ UNCHANGED lsUser
    /\ retryTimer.state = "armed"
    /\ retryTimer' = [retryTimer EXCEPT !.state = "stale"]
    /\ IF ~isOnline \/ ~HasToken
       THEN /\ last' = Step("retryTimer", None, None, "offline")
            /\ UNCHANGED <<failedSaveQueue, tasks, offlineSave>>
       ELSE IF Len(failedSaveQueue) = 0
       THEN /\ last' = Step("retryTimer", None, None, "empty")
            /\ UNCHANGED <<failedSaveQueue, tasks, offlineSave>>
       ELSE /\ InFlight < MaxTasks
            /\ failedSaveQueue' = Tail(failedSaveQueue)
            /\ tasks' = Spawn(tasks, Task("retry", "upload", Some(Head(failedSaveQueue)), None))
            /\ offlineSave' = OfflineAfterCall(Head(failedSaveQueue))
            /\ last' = Step("retryTimer", Some(Head(failedSaveQueue)), None, "upload")
    /\ UNCHANGED <<isOnline, accessToken, saveTimeout, orphanTimers, pendingClients,
                   lastKnownCount, retryDelay, lsClients, lsSynced, lsDriveSync,
                   lsToken, drive, navOnline, listeners, now, lastEvent, overwrote,
                   savesLeft, nonEmptySave, burst>>

NextRetryDelayUncapped(d) == d * 2

\* the delay after a failed retry, part_005:627
NextRetryDelay(d) == Min(d * 2, MaxRetryDelay)

\* saveToDrive is answered: part_005:600-629
RetryUpload(t, outcome) ==
    /\ UNCHANGED DriveClient
    /\ liveFiles' = IF outcome = "ok" THEN LiveAfterWrite ELSE liveFiles
    /\ UNCHANGED renamed
    /\ UNCHANGED lsUser
    /\ BagIn(t, tasks)
    /\ t.kind = "retry" /\ t.pc = "upload"
    /\ tasks' = Finish(tasks, t)
    /\ overwrote' = Overwrote(t, "retry", outcome)
    /\ burst' = BurstAfterUpload(t.clients[1], "retry", outcome)
    /\ last' = Step("retryUpload", t.clients, None, outcome)
    /\ IF outcome = "ok"
       THEN /\ drive' = Uploaded(t.clients[1], t.user)
            /\ lsDriveSync' = now
            /\ retryDelay' = BaseRetryDelay
            /\ retryTimer' = RetryFailedSaves(failedSaveQueue, retryTimer, retryDelay')
            /\ UNCHANGED failedSaveQueue
       ELSE IF IsAuthError(outcome)
       THEN UNCHANGED <<drive, lsDriveSync, retryDelay, retryTimer, failedSaveQueue>>
       ELSE /\ failedSaveQueue' = <<t.clients[1]>> \o failedSaveQueue
            /\ retryDelay' = NextRetryDelay(retryDelay)
            /\ retryTimer' = RetryFailedSaves(failedSaveQueue', retryTimer, retryDelay')
            /\ UNCHANGED <<drive, lsDriveSync>>
    /\ UNCHANGED <<isOnline, accessToken, saveTimeout, orphanTimers, pendingClients,
                   lastKnownCount, lsClients, lsSynced, lsToken, navOnline, listeners,
                   now, lastEvent, savesLeft, nonEmptySave, offlineSave>>

-----------------------------------------------------------------------------
(* StorageService.flushPendingSaves, part_005:557-579 *)

FlushGateAnyNetwork == pendingClients # None

\* the test before the upload, part_005:563
FlushGate == pendingClients # None /\ isOnline /\ HasToken

\* the call, up to the await of saveToDrive: part_005:558-570
FlushPendingSaves ==
    /\ UNCHANGED DriveClient
    /\ UNCHANGED <<liveFiles, renamed>>
    /\ UNCHANGED lsUser
    /\ saveTimeout' = "null"
    /\ IF FlushGate
       THEN /\ InFlight < MaxTasks
            /\ tasks' = Spawn(tasks, Task("flush", "upload", pendingClients, None))
            /\ offlineSave' = OfflineAfterCall(pendingClients[1])
            /\ last' = Step("flush", pendingClients, None, "upload")
       ELSE /\ UNCHANGED <<tasks, offlineSave>>
            /\ last' = Step("flush", None, None, "nothing")
    /\ burst' = BurstPhase("armed", "flushed")
    /\ UNCHANGED <<isOnline, accessToken, orphanTimers, pendingClients, lastKnownCount,
                   failedSaveQueue, retryTimer, retryDelay, lsClients, lsSynced,
                   lsDriveSync, lsToken, drive, navOnline, listeners, now, lastEvent,
                   overwrote, savesLeft, nonEmptySave>>

\* saveToDrive is answered: part_005:571-577
FlushUpload(t, outcome) ==
    /\ UNCHANGED DriveClient
    /\ liveFiles' = IF outcome = "ok" THEN LiveAfterWrite ELSE liveFiles
    /\ UNCHANGED renamed
    /\ UNCHANGED lsUser
    /\ BagIn(t, tasks)
    /\ t.kind = "flush" /\ t.pc = "upload"
    /\ tasks' = Finish(tasks, t)
    /\ overwrote' = Overwrote(t, "flush", outcome)
    /\ burst' = BurstAfterUpload(t.clients[1], "flush", outcome)
    /\ last' = Step("flushUpload", t.clients, None, outcome)
    /\ IF outcome = "ok"
       THEN /\ drive' = Uploaded(t.clients[1], t.user)
            /\ lsDriveSync' = now
            /\ pendingClients' = None
       ELSE UNCHANGED <<drive, lsDriveSync, pendingClients>>
    /\ UNCHANGED <<isOnline, accessToken, saveTimeout, orphanTimers, lastKnownCount,
                   failedSaveQueue, retryTimer, retryDelay, lsClients, lsSynced,
                   lsToken, navOnline, listeners, now, lastEvent, savesLeft, nonEmptySave,
                   offlineSave>>

-----------------------------------------------------------------------------
(* StorageService.loadClients, part_005:292-352 *)

HasLocalDataOffline == Len(LocalClients) > 0 /\ ~(isOnline /\ HasToken)

\* the test under which loadClients returns the cache at once (part_005:309)
HasLocalData == Len(LocalClients) > 0

\* the call, up to its return or its first await
LoadClients ==
    /\ UNCHANGED DriveClient
    /\ UNCHANGED <<liveFiles, renamed>>
    /\ UNCHANGED lsUser
    /\ IF HasLocalData
       THEN \* part_005:309-321; syncFromDrive runs to its first await
            /\ IF isOnline /\ HasToken
               THEN /\ InFlight < MaxTasks
                    /\ tasks' = Spawn(tasks, Task("sync", "meta", None, None))
               ELSE UNCHANGED tasks
            /\ last' = Step("loadClients", InForce, Some(LocalClients), AfterSave)
       ELSE IF isOnline /\ HasToken
       THEN \* part_005:324-327
            /\ InFlight < MaxTasks
            /\ tasks' = Spawn(tasks, Task("load", "download", None, None))
            /\ last' = Step("loadClients", InForce, None, AfterSave)
       ELSE \* part_005:349-351
            /\ UNCHANGED tasks
            /\ last' = Step("loadClients", InForce, Some(<<>>), AfterSave)
    /\ UNCHANGED <<isOnline, accessToken, saveTimeout, orphanTimers, pendingClients,
                   lastKnownCount, failedSaveQueue, retryTimer, retryDelay, lsClients,
                   lsSynced, lsDriveSync, lsToken, drive, navOnline, listeners, now,
                   lastEvent, overwrote, savesLeft, nonEmptySave, burst, offlineSave>>

\* loadFromDrive is answered: part_005:327-333 and 344-351
LoadDownload(t, outcome) ==
    /\ UNCHANGED DriveClient
    /\ UNCHANGED <<liveFiles, renamed>>
    /\ UNCHANGED lsUser
    /\ BagIn(t, tasks)
    /\ t.kind = "load" /\ t.pc = "download"
    /\ LET driveData == LoadFromDrive(outcome) IN
       IF driveData # None
       THEN /\ lsClients' = Some(JSONstringify(driveData[1].clients))
            /\ lsSynced' = now
            /\ tasks' = Spawn(Finish(tasks, t), Task("load", "meta", Some(driveData[1].clients), None))
            /\ last' = Step("loadDownload", None, None, "found")
       ELSE /\ tasks' = Finish(tasks, t)
            /\ last' = Step("loadDownload", None, Some(<<>>), "empty")
            /\ UNCHANGED <<lsClients, lsSynced>>
    /\ UNCHANGED <<isOnline, accessToken, saveTimeout, orphanTimers, pendingClients,
                   lastKnownCount, failedSaveQueue, retryTimer, retryDelay,
                   lsDriveSync, lsToken, drive, navOnline, listeners, now, lastEvent,
                   overwrote, savesLeft, nonEmptySave, burst, offlineSave>>

\* getFileMetadata is answered: part_005:333-342
LoadMetadata(t, outcome) ==
    /\ UNCHANGED DriveClient
    /\ UNCHANGED <<liveFiles, renamed>>
    /\ UNCHANGED lsUser
    /\ BagIn(t, tasks)
    /\ t.kind = "load" /\ t.pc = "meta"
    /\ LET metadata == GetFileMetadata(outcome) IN
       lsDriveSync' = IF metadata # None THEN metadata[1] ELSE now
    /\ tasks' = Finish(tasks, t)
    /\ last' = Step("loadMeta", None, t.clients, "found")
    /\ UNCHANGED <<isOnline, accessToken, saveTimeout, orphanTimers, pendingClients,
                   lastKnownCount, failedSaveQueue, retryTimer, retryDelay, lsClients,
                   lsSynced, lsToken, drive, navOnline, listeners, now, lastEvent,
                   overwrote, savesLeft, nonEmptySave, burst, offlineSave>>

-----------------------------------------------------------------------------
(* StorageService.syncFromDrive, part_005:355-411 *)

\* whether syncFromDrive returns without downloading, part_005:366-385
SyncUpToDate(metadata) ==
    /\ metadata # None
    /\ IF lsDriveSync # NoTime
       THEN metadata[1] <= lsDriveSync + SyncToleranceMs
       ELSE /\ lsSynced # NoTime
            /\ lsSynced > metadata[1] + ConflictToleranceMs

\* getFileMetadata is answered: part_005:362-388
SyncMetadata(t, outcome) ==
    /\ UNCHANGED DriveClient
    /\ UNCHANGED <<liveFiles, renamed>>
    /\ UNCHANGED lsUser
    /\ BagIn(t, tasks)
    /\ t.kind = "sync" /\ t.pc = "meta"
    /\ LET metadata == GetFileMetadata(outcome) IN
       IF SyncUpToDate(metadata)
       THEN /\ tasks' = Finish(tasks, t)
            /\ last' = Step("syncMeta", None, None, "uptodate")
       ELSE /\ tasks' = Spawn(Finish(tasks, t), Task("sync", "download", None, metadata))
            /\ last' = Step("syncMeta", None, None, "download")
    /\ UNCHANGED <<isOnline, accessToken, saveTimeout, orphanTimers, pendingClients,
                   lastKnownCount, failedSaveQueue, retryTimer, retryDelay, lsClients,
                   lsSynced, lsDriveSync, lsToken, drive, navOnline, listeners, now,
                   lastEvent, overwrote, savesLeft, nonEmptySave, burst, offlineSave>>

\* loadFromDrive is answered: part_005:388-410
SyncDownload(t, outcome) ==
    /\ UNCHANGED DriveClient
    /\ UNCHANGED <<liveFiles, renamed>>
    /\ UNCHANGED lsUser
    /\ BagIn(t, tasks)
    /\ t.kind = "sync" /\ t.pc = "download"
    /\ tasks' = Finish(tasks, t)
    /\ LET driveData == LoadFromDrive(outcome) IN
       IF driveData # None
       THEN /\ lsClients' = Some(JSONstringify(driveData[1].clients))
            /\ lsSynced' = now
            /\ lsDriveSync' = IF t.meta # None THEN t.meta[1] ELSE now
            /\ lastEvent' = ClientsUpdated
            /\ last' = Step("syncDownload", None, Some(driveData[1].clients), "applied")
       ELSE /\ last' = Step("syncDownload", None, None, "nothing")
            /\ UNCHANGED <<lsClients, lsSynced, lsDriveSync, lastEvent>>
    /\ UNCHANGED <<isOnline, accessToken, saveTimeout, orphanTimers, pendingClients,
                   lastKnownCount, failedSaveQueue, retryTimer, retryDelay, lsToken,
                   drive, navOnline, listeners, now, overwrote, savesLeft, nonEmptySave, burst,
                   offlineSave>>

-----------------------------------------------------------------------------
(* StorageService.deleteAccount, part_005:684-717 *)

\* steps 2 and 3 of deleteAccount: part_005:704-713
ClearLocal ==
    /\ lsClients' = None
    /\ lsSynced' = NoTime
    /\ lsDriveSync' = NoTime
    /\ lsToken' = NoToken
    /\ lsUser' = None
    /\ accessToken' = NoToken
    /\ lastKnownCount' = 0
    /\ nonEmptySave' = IF nonEmptySave = "yes" THEN "deleted" ELSE nonEmptySave

\* the call, up to the await of deleteDataFile or, offline, to its end: part_005:685-716
DeleteAccount ==
    /\ UNCHANGED DriveClient
    /\ UNCHANGED <<liveFiles, renamed>>
    /\ saveTimeout' = IF saveTimeout = "armed" THEN "stale" ELSE saveTimeout
    /\ retryTimer' = IF retryTimer.state = "armed"
                     THEN [retryTimer EXCEPT !.state = "stale"] ELSE retryTimer
    /\ failedSaveQueue' = <<>>
    /\ pendingClients' = None
    /\ burst' = BurstPhase("armed", "cancelled")
    /\ last' = Step("deleteAccount", None, None, "")
    /\ IF isOnline /\ HasToken
       THEN /\ InFlight < MaxTasks
            /\ tasks' = Spawn(tasks, Task("delete", "remote", None, None))
            /\ UNCHANGED <<lsClients, lsSynced, lsDriveSync, lsToken, lsUser, accessToken,
                           lastKnownCount, nonEmptySave>>
       ELSE /\ ClearLocal
            /\ UNCHANGED tasks
    /\ UNCHANGED <<isOnline, orphanTimers, retryDelay, drive, navOnline, listeners, now,
                   lastEvent, overwrote, savesLeft, offlineSave>>

\* deleteDataFile is answered (googleDriveService.ts:114-137): part_005:694-716
DeleteRemote(t, outcome) ==
    /\ UNCHANGED DriveClient
    /\ liveFiles' = IF outcome = "ok" /\ liveFiles > 0 THEN liveFiles - 1 ELSE liveFiles
    /\ renamed' = IF outcome = "ok" /\ liveFiles > 0 THEN renamed \cup {drive} ELSE renamed
    /\ BagIn(t, tasks)
    /\ t.kind = "delete" /\ t.pc = "remote"
    /\ tasks' = Finish(tasks, t)
    /\ drive' = IF outcome = "ok" THEN None ELSE drive
    /\ ClearLocal
    /\ last' = Step("deleteRemote", None, None, outcome)
    /\ UNCHANGED <<isOnline, saveTimeout, orphanTimers, pendingClients, failedSaveQueue,
                   retryTimer, retryDelay, navOnline, listeners, now, lastEvent,
                   overwrote, savesLeft, burst, offlineSave>>

-----------------------------------------------------------------------------
(* App.onLogout, App.tsx:283-306 *)

\* the handler up to the await of signOutGoogleIdentity (App.tsx:283-297), called
\* with a user signed in and the collection c on screen: the cache is written
\* and saveClients(c) called when c is not empty, then the stored token removed
OnLogout(c) ==
    /\ UNCHANGED DriveClient
    /\ UNCHANGED <<liveFiles, renamed>>
    /\ UNCHANGED lsUser
    /\ InFlight < MaxTasks
    /\ \A t \in BagToSet(tasks) : t.kind # "logout"
    /\ tasks' = Spawn(tasks, Task("logout", "signOut", None, None))
    /\ lsToken' = NoToken
    /\ IF Len(c) > 0
       THEN SaveClientsBody(c)
       ELSE /\ last' = Step("logout", None, None, "")
            /\ UNCHANGED <<isOnline, accessToken, saveTimeout, orphanTimers,
                           pendingClients, lastKnownCount, failedSaveQueue, retryTimer,
                           retryDelay, lsClients, lsSynced, lsDriveSync, drive,
                           navOnline, listeners, now, lastEvent, overwrote, savesLeft,
                           nonEmptySave, burst, offlineSave>>

\* signOutGoogleIdentity resolves (part_005:203-228) and the handler ends with
\* setCurrentUser(null) (App.tsx:298-302, part_005:726-733)
LogoutDone(t) ==
    /\ UNCHANGED DriveClient
    /\ UNCHANGED <<liveFiles, renamed>>
    /\ lsUser' = None
    /\ BagIn(t, tasks)
    /\ t.kind = "logout" /\ t.pc = "signOut"
    /\ tasks' = Finish(tasks, t)
    /\ lsToken' = NoToken
    /\ last' = Step("logoutDone", None, None, "")
    /\ UNCHANGED <<isOnline, accessToken, saveTimeout, orphanTimers, pendingClients,
                   lastKnownCount, failedSaveQueue, retryTimer, retryDelay, lsClients,
                   lsSynced, lsDriveSync, drive, navOnline, listeners, now, lastEvent,
                   overwrote, savesLeft, nonEmptySave, burst, offlineSave>>

-----------------------------------------------------------------------------
(* The environment *)

\* another device replaces the remote file
OtherWriter(c) ==
    /\ UNCHANGED DriveClient
    /\ liveFiles' = LiveAfterWrite
    /\ UNCHANGED renamed
    /\ UNCHANGED lsUser
    /\ drive # Some([clients |-> c, userProfile |-> Some("coach"), modifiedTime |-> now])
    /\ drive' = Some([clients |-> c, userProfile |-> Some("coach"), modifiedTime |-> now])
    /\ last' = Step("otherWriter", Some(c), None, "")
    /\ UNCHANGED <<isOnline, accessToken, saveTimeout, orphanTimers, pendingClients,
                   lastKnownCount, failedSaveQueue, retryTimer, retryDelay, lsClients,
                   lsSynced, lsDriveSync, lsToken, navOnline, listeners, tasks,
                   lastEvent, overwrote, savesLeft, nonEmptySave, burst, offlineSave>>
    /\ UNCHANGED now

\* time passes
Tick ==
    /\ UNCHANGED DriveClient
    /\ UNCHANGED <<liveFiles, renamed>>
    /\ UNCHANGED lsUser
    /\ now + TickMs <= MaxTime
    /\ now' = now + TickMs
    /\ last' = Step("tick", None, None, "")
    /\ UNCHANGED <<isOnline, accessToken, saveTimeout, orphanTimers, pendingClients,
                   lastKnownCount, failedSaveQueue, retryTimer, retryDelay, lsClients,
                   lsSynced, lsDriveSync, lsToken, drive, navOnline, listeners,
                   tasks, lastEvent, overwrote, savesLeft, nonEmptySave, burst, offlineSave>>

-----------------------------------------------------------------------------
(* The Drive client, src/services/googleDriveService.ts.  Every request is  *)
(* a step: the reply is whatever the server or the network gives.           *)

\* replies to a files.list search (callDriveAPI, googleDriveService.ts:25-50)
SearchReplies == {"found", "none", ErrNetwork, ErrAuth}
\* replies to a POST that creates a folder or a file
CreateReplies == {"ok", ErrNotFound, ErrServer, ErrNetwork}
\* replies to a PATCH of the file's content or a GET of it: ok, status 404,
\* another status that is not ok, or a rejected fetch
ContentReplies == {"ok", ErrNotFound, ErrServer, ErrNetwork}

\* the test of saveToDrive's catch, googleDriveService.ts:266
Is404Message(msg) == MessageIncludes(msg, "404") \/ MessageIncludes(msg, "File not found")

\* fetch rejects on a network failure; any HTTP status resolves
FetchRejects(reply) == reply = ErrNetwork

\* what no step of the Drive client touches
DriveFrame ==
    UNCHANGED <<isOnline, accessToken, saveTimeout, orphanTimers, pendingClients,
                lastKnownCount, failedSaveQueue, retryTimer, retryDelay, lsClients,
                lsSynced, lsDriveSync, lsToken, navOnline, listeners, now, tasks,
                lastEvent, overwrote, savesLeft, nonEmptySave, burst, offlineSave,
                driveAccessToken, lsUser>>

Failed(call, reply) ==
    [call EXCEPT !.failures = Append(@, [at |-> call.pc, reply |-> reply,
                                         cached |-> cachedFileId # None])]

Resolved(call, value) ==
    [call EXCEPT !.pc = "done", !.result = "resolved", !.returned = value]

Rejected(call, msg) ==
    [call EXCEPT !.pc = "done", !.result = "rejected", !.message = msg]

\* getOrCreateFolder and findDataFile with the handles folder and file cached
\* or not (googleDriveService.ts:53-57, 86-90), then the first request that is
\* awaited; callDriveAPI throws without a token (googleDriveService.ts:26-28)
Locate(seq, folder, file) ==
    IF folder = None
    THEN IF driveAccessToken = NoToken
         THEN [seq EXCEPT !.pc = "noToken"]
         ELSE [seq EXCEPT !.pc = "folderSearch"]
    ELSE IF file = None
    THEN IF driveAccessToken = NoToken
         THEN [seq EXCEPT !.pc = IF seq.fn = "saveToDrive" THEN "noToken" ELSE "noFile"]
         ELSE [seq EXCEPT !.pc = "fileSearch"]
    ELSE IF seq.fn = "saveToDrive"
    THEN [seq EXCEPT !.pc = "update", !.attempts = @ + 1]
    ELSE IF seq.fn = "deleteDataFile"
    THEN [seq EXCEPT !.pc = "rename"]
    ELSE [seq EXCEPT !.pc = "download"]

\* a call that cannot issue its first request ends at once
Settle(call) ==
    IF call.pc = "noToken"
    THEN IF call.fn = "loadFromDrive"
         THEN Resolved(Failed(call, ErrNoToken), None)
         ELSE Rejected(Failed(call, ErrNoToken), ErrNoToken)
    ELSE IF call.pc = "noFile" THEN Resolved(call, None)
    ELSE call

\* invalidateCache and saveToDrive(data, false), googleDriveService.ts:20-23, 225, 269
RetryOnce(call) ==
    /\ cachedFolderId' = None
    /\ cachedFileId' = None
    /\ driveCall' = Settle(Locate([call EXCEPT !.retry = FALSE, !.sequences = @ + 1], None, None))

\* an error thrown inside the call: the catch of saveToDrive
\* (googleDriveService.ts:264-272), of loadFromDrive (190-193) or of
\* deleteDataFile (133-136)
Throw(call, msg) ==
    IF call.fn = "loadFromDrive"
    THEN /\ driveCall' = Resolved(call, None)
         /\ UNCHANGED <<cachedFolderId, cachedFileId>>
    ELSE IF call.retry /\ Is404Message(msg)
    THEN RetryOnce(call)
    ELSE /\ driveCall' = Rejected(call, msg)
         /\ UNCHANGED <<cachedFolderId, cachedFileId>>

NewCall(fn, data) ==
    [NoCall EXCEPT !.fn = fn, !.data = data, !.retry = (fn = "saveToDrive"),
                   !.calls = driveCall.calls + 1, !.sequences = 1, !.result = "pending"]

\* saveToDrive(data) is called: googleDriveService.ts:197-205
SaveToDrive(data) ==
    /\ driveCall.pc = "done"
    /\ driveCall.calls < MaxCalls
    /\ driveCall' = Settle(Locate(NewCall("saveToDrive", Some(data)), cachedFolderId, cachedFileId))
    /\ last' = Step("saveToDrive", Some(data.clients), None, "")
    /\ UNCHANGED <<cachedFolderId, cachedFileId, drive, liveFiles, renamed>>
    /\ DriveFrame

\* loadFromDrive() is called: googleDriveService.ts:162-170
LoadFromDriveCall ==
    /\ driveCall.pc = "done"
    /\ driveCall.calls < MaxCalls
    /\ driveCall' = Settle(Locate(NewCall("loadFromDrive", None), cachedFolderId, cachedFileId))
    /\ last' = Step("loadFromDrive", None, None, "")
    /\ UNCHANGED <<cachedFolderId, cachedFileId, drive, liveFiles, renamed>>
    /\ DriveFrame

\* the search for the folder is answered: googleDriveService.ts:59-69, 83-86
FolderSearchReply(reply) ==
    /\ driveCall.pc = "folderSearch"
    /\ IF reply = "found"
       THEN /\ cachedFolderId' = Some("folder")
            /\ driveCall' = Settle(Locate(driveCall, Some("folder"), cachedFileId))
            /\ UNCHANGED cachedFileId
       ELSE IF reply = "none"
       THEN /\ driveCall' = [driveCall EXCEPT !.pc = "folderCreate"]
            /\ UNCHANGED <<cachedFolderId, cachedFileId>>
       ELSE Throw(Failed(driveCall, reply), reply)
    /\ last' = Step("folderSearch", None, None, reply)
    /\ UNCHANGED <<drive, liveFiles, renamed>>
    /\ DriveFrame

\* the creation of the folder is answered: googleDriveService.ts:71-82
FolderCreateReply(reply) ==
    /\ driveCall.pc = "folderCreate"
    /\ IF reply = "ok"
       THEN /\ cachedFolderId' = Some("folder")
            /\ driveCall' = Settle(Locate(driveCall, Some("folder"), cachedFileId))
            /\ UNCHANGED cachedFileId
       ELSE Throw(Failed(driveCall, reply), reply)
    /\ last' = Step("folderCreate", None, None, reply)
    /\ UNCHANGED <<drive, liveFiles, renamed>>
    /\ DriveFrame

\* the search for the data file is answered: googleDriveService.ts:92-108; a
\* failed search yields null like a search that finds nothing
FileSearchReply(reply) ==
    /\ driveCall.pc = "fileSearch"
    /\ reply = "found" => liveFiles > 0
    /\ reply = "none" => liveFiles = 0
    /\ IF reply = "found"
       THEN /\ cachedFileId' = Some("file")
            /\ driveCall' = Locate(driveCall, cachedFolderId, Some("file"))
       ELSE /\ driveCall' =
                 LET call == IF reply = "none" THEN driveCall ELSE Failed(driveCall, reply) IN
                 IF driveCall.fn = "saveToDrive"
                 THEN [call EXCEPT !.pc = "create"]
                 ELSE Resolved(call, None)
            /\ UNCHANGED cachedFileId
    /\ last' = Step("fileSearch", None, None, reply)
    /\ UNCHANGED <<cachedFolderId, drive, liveFiles, renamed>>
    /\ DriveFrame

\* the PATCH of the existing file is answered: googleDriveService.ts:208-229, 259-263
UpdateReply(reply) ==
    /\ driveCall.pc = "update"
    /\ reply = "ok" => liveFiles > 0
    /\ UNCHANGED <<liveFiles, renamed>>
    /\ IF reply = "ok"
       THEN /\ drive' = Written(driveCall.data[1])
            /\ driveCall' = Resolved([driveCall EXCEPT !.accepted = TRUE], Some(now))
            /\ UNCHANGED <<cachedFolderId, cachedFileId>>
       ELSE /\ UNCHANGED drive
            /\ IF ~FetchRejects(reply) /\ reply = ErrNotFound /\ driveCall.retry
               THEN RetryOnce(Failed(driveCall, reply))
               ELSE Throw(Failed(driveCall, reply), reply)
    /\ last' = Step("update", None, None, reply)
    /\ DriveFrame

\* the creation of the data file is answered: googleDriveService.ts:231-242; the
\* new file has no content yet
CreateReply(reply) ==
    /\ driveCall.pc = "create"
    /\ IF reply = "ok"
       THEN /\ driveCall' = [driveCall EXCEPT !.pc = "upload", !.attempts = @ + 1]
            /\ UNCHANGED <<cachedFolderId, cachedFileId>>
       ELSE Throw(Failed(driveCall, reply), reply)
    /\ last' = Step("create", None, None, reply)
    /\ liveFiles' = IF reply = "ok" THEN liveFiles + 1 ELSE liveFiles
    /\ UNCHANGED <<drive, renamed>>
    /\ DriveFrame

\* the PATCH of the new file's content is answered: googleDriveService.ts:244-263;
\* response.ok is not tested, and a reply without modifiedTime yields the
\* current time
UploadReply(reply) ==
    /\ driveCall.pc = "upload"
    /\ UNCHANGED <<liveFiles, renamed>>
    /\ IF reply = "ok"
       THEN /\ drive' = Written(driveCall.data[1])
            /\ driveCall' = Resolved([driveCall EXCEPT !.accepted = TRUE], Some(now))
            /\ UNCHANGED <<cachedFolderId, cachedFileId>>
       ELSE IF FetchRejects(reply)
       THEN /\ Throw(Failed(driveCall, reply), reply)
            /\ UNCHANGED drive
       ELSE /\ driveCall' = Resolved(Failed(driveCall, reply), Some(now))
            /\ UNCHANGED <<cachedFolderId, cachedFileId, drive>>
    /\ last' = Step("upload", None, None, reply)
    /\ DriveFrame

\* the download of the file's content is answered: googleDriveService.ts:172-189
DownloadReply(reply) ==
    /\ driveCall.pc = "download"
    /\ IF reply = "ok"
       THEN /\ drive # None
            /\ driveCall' = Resolved(driveCall, Some(ResponseJson(BodyOf(drive[1]))))
            /\ UNCHANGED <<cachedFolderId, cachedFileId>>
       ELSE Throw(Failed(driveCall, reply), reply)
    /\ last' = Step("download", None, None, reply)
    /\ UNCHANGED <<drive, liveFiles, renamed>>
    /\ DriveFrame

\* deleteDataFile() is called: googleDriveService.ts:114-118
DeleteDataFile ==
    /\ driveCall.pc = "done"
    /\ driveCall.calls < MaxCalls
    /\ driveCall' = Settle(Locate(NewCall("deleteDataFile", None), cachedFolderId, cachedFileId))
    /\ last' = Step("deleteDataFile", None, None, "")
    /\ UNCHANGED <<cachedFolderId, cachedFileId, drive, liveFiles, renamed>>
    /\ DriveFrame

\* the content of a document under its new name
RenamedKeepsContent(doc) == doc

\* the PATCH that renames the data file is answered: googleDriveService.ts:120-132
RenameReply(reply) ==
    /\ driveCall.pc = "rename"
    /\ reply = "ok" => liveFiles > 0
    /\ IF reply = "ok"
       THEN /\ cachedFileId' = None
            /\ liveFiles' = liveFiles - 1
            /\ renamed' = renamed \cup {RenamedKeepsContent(drive)}
            /\ drive' = None
            /\ driveCall' = Resolved([driveCall EXCEPT !.accepted = TRUE], None)
            /\ UNCHANGED cachedFolderId
       ELSE /\ Throw(Failed(driveCall, reply), reply)
            /\ UNCHANGED <<drive, liveFiles, renamed>>
    /\ last' = Step("rename", None, None, reply)
    /\ DriveFrame

-----------------------------------------------------------------------------

(* Specifications *)

\* a session's calls and background reads: start-up, network events, saves and
\* loads, before any debounce timer fires
SessionCalls ==
    \/ \E token \in {NoToken, Token} : Initialize(token)
    \/ NetOnline
    \/ NetOffline
    \/ LoadClients
    \/ \E t \in BagToSet(tasks), outcome \in ProbeOutcomes : LoadDownload(t, outcome)
    \/ \E t \in BagToSet(tasks), outcome \in ProbeOutcomes : LoadMetadata(t, outcome)
    \/ \E t \in BagToSet(tasks), outcome \in ProbeOutcomes : SyncMetadata(t, outcome)
    \/ \E t \in BagToSet(tasks), outcome \in ProbeOutcomes : SyncDownload(t, outcome)

Next ==
    \/ SessionCalls
    \/ \E c \in Collections : SaveClients(c)

Spec == Init /\ [][Next]_vars

\* the same session with its debounce and retry timers firing
InitSession ==
    /\ Init
    /\ lsClients = None
    /\ drive # None

NextSession ==
    \/ SessionCalls
    \/ \E c \in {<<>>, <<"a">>, <<"a", "b">>} : SaveClients(c)
    \/ \E orphan \in BOOLEAN : SaveTimerFire(orphan)
    \/ \E t \in BagToSet(tasks), outcome \in ProbeOutcomes : PushMetadata(t, outcome)
    \/ \E t \in BagToSet(tasks), outcome \in UploadOutcomes : PushUpload(t, outcome)
    \/ RetryTimerFire
    \/ \E t \in BagToSet(tasks), outcome \in UploadOutcomes : RetryUpload(t, outcome)

SpecSession == InitSession /\ [][NextSession]_vars

\* the state after initialize(token) while navigator.onLine, before any call
Initialized(budget) ==
    /\ isOnline = TRUE
    /\ accessToken = Token
    /\ saveTimeout = "null"
    /\ orphanTimers = 0
    /\ pendingClients = None
    /\ lastKnownCount = 0
    /\ failedSaveQueue = <<>>
    /\ retryTimer = [state |-> "null", delay |-> 0]
    /\ retryDelay = BaseRetryDelay
    /\ lsClients = None
    /\ lsSynced = NoTime
    /\ lsDriveSync \in {NoTime, 0}
    /\ lsToken = Token
    /\ drive = IF lsDriveSync = NoTime THEN None
               ELSE Some([clients |-> <<"b">>, userProfile |-> Some("coach"), modifiedTime |-> 0])
    /\ navOnline = TRUE
    /\ listeners = 1
    /\ now = 0
    /\ tasks = EmptyBag
    /\ lastEvent = NoEvent
    /\ overwrote = "none"
    /\ savesLeft = budget
    /\ nonEmptySave = "no"
    /\ burst = NoBurst
    /\ offlineSave = None
    /\ last = Step("initialize", None, None, Token)
    /\ driveAccessToken = Token
    /\ cachedFolderId = None
    /\ cachedFileId = None
    /\ driveCall = NoCall
    /\ liveFiles = IF drive = None THEN 0 ELSE 1
    /\ renamed = {}
    /\ lsUser = Some("coach")

\* the push pipeline of a session that is online with a credential
InitPush == Initialized(MaxSaves)

NextPush ==
    \/ \E c \in Collections : SaveClients(c)
    \/ \E orphan \in BOOLEAN : SaveTimerFire(orphan)
    \/ \E t \in BagToSet(tasks), outcome \in ProbeOutcomes : PushMetadata(t, outcome)
    \/ \E t \in BagToSet(tasks), outcome \in UploadOutcomes : PushUpload(t, outcome)
    \/ RetryTimerFire
    \/ \E t \in BagToSet(tasks), outcome \in UploadOutcomes : RetryUpload(t, outcome)

SpecPush == InitPush /\ [][NextPush]_vars

\* saves and their debounced pushes with loads, background syncs and
\* deleteAccount, while the retry timer has not fired
InitAccount == Initialized(MaxSaves) /\ drive = None

NextAccount ==
    \/ \E c \in {<<>>, <<"a", "b">>} : SaveClients(c)
    \/ \E orphan \in BOOLEAN : SaveTimerFire(orphan)
    \/ \E t \in BagToSet(tasks), outcome \in ProbeOutcomes : PushMetadata(t, outcome)
    \/ \E t \in BagToSet(tasks), outcome \in UploadOutcomes : PushUpload(t, outcome)
    \/ LoadClients
    \/ \E t \in BagToSet(tasks), outcome \in ProbeOutcomes : LoadDownload(t, outcome)
    \/ \E t \in BagToSet(tasks), outcome \in ProbeOutcomes : LoadMetadata(t, outcome)
    \/ \E t \in BagToSet(tasks), outcome \in ProbeOutcomes : SyncMetadata(t, outcome)
    \/ \E t \in BagToSet(tasks), outcome \in ProbeOutcomes : SyncDownload(t, outcome)
    \/ DeleteAccount
    \/ \E t \in BagToSet(tasks), outcome \in ProbeOutcomes : DeleteRemote(t, outcome)

SpecAccount == InitAccount /\ [][NextAccount]_vars

\* saves and their debounced pushes alone, with room for three calls
InitTimers == Initialized(MaxTimerSaves)

NextTimers ==
    \/ \E c \in {<<"a">>, <<"a", "b">>} : SaveClients(c)
    \/ \E orphan \in BOOLEAN : SaveTimerFire(orphan)
    \/ \E t \in BagToSet(tasks), outcome \in ProbeOutcomes : PushMetadata(t, outcome)
    \/ \E t \in BagToSet(tasks), outcome \in UploadOutcomes : PushUpload(t, outcome)

SpecTimers == InitTimers /\ [][NextTimers]_vars

\* saves, their debounced pushes and retries, and logout
InitLogout == Initialized(MaxSaves)

NextLogout ==
    \/ NextPush
    \/ \E c \in Collections : OnLogout(c)
    \/ \E t \in BagToSet(tasks) : LogoutDone(t)

SpecLogout == InitLogout /\ [][NextLogout]_vars

\* saves, their debounced pushes and flushPendingSaves while the network comes
\* and goes
InitFlush == Initialized(MaxConflictSaves)

NextFlush ==
    \/ \E c \in {<<"a">>, <<"a", "b">>} : SaveClients(c)
    \/ \E orphan \in BOOLEAN : SaveTimerFire(orphan)
    \/ \E t \in BagToSet(tasks), outcome \in ProbeOutcomes : PushMetadata(t, outcome)
    \/ \E t \in BagToSet(tasks), outcome \in UploadOutcomes : PushUpload(t, outcome)
    \/ FlushPendingSaves
    \/ \E t \in BagToSet(tasks), outcome \in UploadOutcomes : FlushUpload(t, outcome)
    \/ NetOffline
    \/ NetOnline
    \/ \E t \in BagToSet(tasks), outcome \in ProbeOutcomes : SyncMetadata(t, outcome)
    \/ \E t \in BagToSet(tasks), outcome \in ProbeOutcomes : SyncDownload(t, outcome)

SpecFlush == InitFlush /\ [][NextFlush]_vars

\* loads and background syncs of a session that starts with or without a cache,
\* while time passes, the network comes and goes and another device writes the
\* remote file
InitLoad ==
    /\ isOnline = TRUE
    /\ accessToken = Token
    /\ saveTimeout = "null"
    /\ orphanTimers = 0
    /\ pendingClients = None
    /\ lastKnownCount = 0
    /\ failedSaveQueue = <<>>
    /\ retryTimer = [state |-> "null", delay |-> 0]
    /\ retryDelay = BaseRetryDelay
    /\ lsClients \in {None, Some(JSONstringify(<<"a">>))}
    /\ lsSynced = IF lsClients = None THEN NoTime ELSE 0
    /\ lsDriveSync \in IF lsClients = None THEN {NoTime} ELSE {NoTime, 0}
    /\ lsToken = Token
    /\ drive \in {None, Some([clients |-> <<"b">>, userProfile |-> Some("coach"), modifiedTime |-> 0])}
    /\ navOnline = TRUE
    /\ listeners = 1
    /\ now = 0
    /\ tasks = EmptyBag
    /\ lastEvent = NoEvent
    /\ overwrote = "none"
    /\ savesLeft = 0
    /\ nonEmptySave = "no"
    /\ burst = NoBurst
    /\ offlineSave = None
    /\ last = Step("initialize", None, None, Token)
    /\ driveAccessToken = Token
    /\ cachedFolderId = None
    /\ cachedFileId = None
    /\ driveCall = NoCall
    /\ liveFiles = IF drive = None THEN 0 ELSE 1
    /\ renamed = {}
    /\ lsUser = Some("coach")

NextLoad ==
    \/ LoadClients
    \/ \E t \in BagToSet(tasks), outcome \in ProbeOutcomes : LoadDownload(t, outcome)
    \/ \E t \in BagToSet(tasks), outcome \in ProbeOutcomes : LoadMetadata(t, outcome)
    \/ \E t \in BagToSet(tasks), outcome \in ProbeOutcomes : SyncMetadata(t, outcome)
    \/ \E t \in BagToSet(tasks), outcome \in ProbeOutcomes : SyncDownload(t, outcome)
    \/ NetOffline
    \/ NetOnline
    \/ \E c \in {<<"b">>, <<"a", "b">>} : OtherWriter(c)
    \/ Tick

SpecLoad == InitLoad /\ [][NextLoad]_vars

\* the push pipeline with time passing and no other writer of the remote file
InitCycles == Initialized(MaxSaves)

NextCycles ==
    \/ \E c \in {<<"a">>, <<"a", "b">>} : SaveClients(c)
    \/ \E orphan \in BOOLEAN : SaveTimerFire(orphan)
    \/ \E t \in BagToSet(tasks), outcome \in ProbeOutcomes : PushMetadata(t, outcome)
    \/ \E t \in BagToSet(tasks), outcome \in UploadOutcomes : PushUpload(t, outcome)
    \/ RetryTimerFire
    \/ \E t \in BagToSet(tasks), outcome \in UploadOutcomes : RetryUpload(t, outcome)
    \/ Tick

SpecCycles == InitCycles /\ [][NextCycles]_vars

\* calls of the Drive client, one at a time, with or without a credential and
\* with the remote file present or absent
InitDrive == Init \/ Initialized(0)

NextDrive ==
    \/ \E c \in {<<"a">>, <<"a", "b">>}, user \in {None, Some("coach")} :
          SaveToDrive(BackupData(c, user))
    \/ LoadFromDriveCall
    \/ \E reply \in SearchReplies : FolderSearchReply(reply)
    \/ \E reply \in CreateReplies : FolderCreateReply(reply)
    \/ \E reply \in SearchReplies : FileSearchReply(reply)
    \/ \E reply \in ContentReplies : UpdateReply(reply)
    \/ \E reply \in CreateReplies : CreateReply(reply)
    \/ \E reply \in ContentReplies : UploadReply(reply)
    \/ \E reply \in ContentReplies : DownloadReply(reply)
    \/ DeleteDataFile
    \/ \E reply \in CreateReplies : RenameReply(reply)

SpecDrive == InitDrive /\ [][NextDrive]_vars

\* the push pipeline with time passing, another device writing the remote file
\* and flushPendingSaves
InitConflict == Initialized(MaxConflictSaves)

NextConflict ==
    \/ NextPush
    \/ FlushPendingSaves
    \/ \E t \in BagToSet(tasks), outcome \in UploadOutcomes : FlushUpload(t, outcome)
    \/ \E c \in {<<"b">>} : OtherWriter(c)
    \/ Tick

SpecConflict == InitConflict /\ [][NextConflict]_vars

-----------------------------------------------------------------------------
(* Properties *)

\* a step of saveClients; one called with collection c
IsSave == savesLeft' = savesLeft - 1
IsSaveOf(c) == IsSave /\ last'.clients = Some(c)

\* C1: once saveClients(R) has returned for a non-empty R the local cache holds
\* exactly R, and a loadClients call made right after it returns R, online or
\* offline, with or without a credential
C1_LocalDurability ==
    /\ (last.op = "saveClients" /\ Len(last.clients[1]) > 0)
          => /\ last.out # "rejected"
             /\ lsClients = Some(JSONstringify(last.clients[1]))
             /\ LocalClients = last.clients[1]
    /\ (last.op = "loadClients" /\ last.out \in {"debounced", "local"}
            /\ Len(last.clients[1]) > 0)
          => last.ret = last.clients

\* C1 happens: offline and without a credential, a load right after the save
\* of [a, b] over a cache that held [a] returned [a, b]
C1_Witness ==
    /\ last.op = "loadClients"
    /\ last.out = "local"
    /\ last.ret = Some(<<"a", "b">>)
    /\ ~isOnline
    /\ ~HasToken

\* C2: saveClients never replaces a non-empty cached collection by an empty
\* one, however the cached collection got there
C2_NeverEmptiesCache ==
    [][(IsSave /\ Len(LocalClients) > 0) => Len(LocalClients') > 0]_vars

\* what a rejected saveClients call leaves alone: everything but the record of the call
SaveFrame ==
    UNCHANGED <<isOnline, accessToken, saveTimeout, orphanTimers, pendingClients,
                lastKnownCount, failedSaveQueue, retryTimer, retryDelay, lsClients,
                lsSynced, lsDriveSync, lsToken, drive, navOnline, listeners, now,
                tasks, lastEvent>>

\* a load made right after a rejected saveClients([]) that itself came right
\* after saveClients(R) returned R
LoadAfterRejectedSave ==
    (last.op = "loadClients" /\ last.out = "rejected" /\ last.clients # None)
       => last.ret = last.clients

\* C3 as stated: saveClients([]) after a saveClients of a non-empty collection
\* in the same session changes nothing
C3_EmptySaveChangesNothing ==
    [][(IsSaveOf(<<>>) /\ nonEmptySave # "no") => SaveFrame]_vars

\* C3 amended: saveClients([]) after a saveClients of a non-empty collection
\* with no deleteAccount completed since is rejected and changes nothing: cache,
\* timestamps, pending payload, debounce timer and retry queue are as before,
\* and a following loadClients returns the prior non-empty collection
C3_EmptySaveIsNoOp ==
    /\ []LoadAfterRejectedSave
    /\ [][(IsSaveOf(<<>>) /\ nonEmptySave = "yes")
             => (SaveFrame /\ last'.out = "rejected")]_vars

\* C3 happens: saveClients([]) was rejected while [a, b] was pending with the
\* debounce timer armed, and the load after it returned [a, b]
C3_Witness ==
    /\ last.op = "loadClients"
    /\ last.out = "rejected"
    /\ last.ret = Some(<<"a", "b">>)
    /\ pendingClients = Some(<<"a", "b">>)
    /\ saveTimeout = "armed"

PushFailureFrame == UNCHANGED <<lsClients, lsSynced, lsDriveSync, drive, retryDelay>>

\* C8 as stated: when the upload of a debounced push fails, the payload that
\* upload carried is appended once at the tail of the retry queue, the pending
\* payload is cleared and a retry timer is armed; the cache is unchanged
C8_FailedCyclePayloadQueued ==
    [][\A t \in BagToSet(tasks), outcome \in UploadErrors :
          PushUpload(t, outcome)
             => /\ failedSaveQueue' = Append(failedSaveQueue, t.clients[1])
                /\ pendingClients' = None
                /\ retryTimer'.state = "armed"
                /\ PushFailureFrame]_vars

\* C8 amended: when the upload of a debounced push fails, the payload pending
\* at that moment (the cycle's own payload unless a later saveClients replaced
\* it) is appended once at the tail of the retry queue, the pending payload is
\* cleared and a retry timer is armed with the current delay; when nothing is
\* pending any more, queue and retry timer stay as they are; the cache is
\* unchanged either way
C8_FailedPushQueuesPending ==
    [][\A t \in BagToSet(tasks), outcome \in UploadErrors :
          PushUpload(t, outcome)
             => /\ PushFailureFrame
                /\ pendingClients' = None
                /\ IF pendingClients # None
                   THEN /\ failedSaveQueue' = Append(failedSaveQueue, pendingClients[1])
                        /\ retryTimer' = [state |-> "armed", delay |-> retryDelay]
                   ELSE UNCHANGED <<failedSaveQueue, retryTimer>>
                /\ pendingClients = t.clients
                      => failedSaveQueue' = Append(failedSaveQueue, t.clients[1])]_vars

\* C8 happens: a second debounced push has failed and its payload [a, b] stands
\* in the retry queue behind [a], with the retry timer armed
C8_Witness ==
    /\ failedSaveQueue = << <<"a">>, <<"a", "b">> >>
    /\ pendingClients = None
    /\ retryTimer.state = "armed"
    /\ lsClients = Some(JSONstringify(<<"a", "b">>))

\* C9: when a retry fails with an auth error the loop halts (no retry timer is
\* re-armed) and the retry queue holds every payload it held before the
\* attempt, in the same order, the rejected payload included
C9_AuthErrorKeepsQueue ==
    [][\A t \in BagToSet(tasks) :
          RetryUpload(t, ErrAuth)
             => /\ failedSaveQueue' = <<t.clients[1]>> \o failedSaveQueue
                /\ retryTimer' = retryTimer]_vars

\* C10: the retry delay is one of 2 s, 4 s, 8 s, 16 s, 30 s; a non-auth failure
\* of a retry doubles it up to the cap of 30 s (strictly more until the cap is
\* reached), puts the failed payload back at the head of the queue and arms the
\* retry timer with the new delay; a successful retry sets it back to 2 s; an
\* auth failure leaves it as it is
C10_Backoff ==
    /\ [](retryDelay \in {2000, 4000, 8000, 16000, 30000})
    /\ [][\A t \in BagToSet(tasks), outcome \in UploadOutcomes :
             RetryUpload(t, outcome)
                => IF outcome = "ok" THEN retryDelay' = 2000
                   ELSE IF outcome = ErrAuth THEN retryDelay' = retryDelay
                   ELSE /\ retryDelay' = IF retryDelay >= 16000 THEN 30000
                                         ELSE 2 * retryDelay
                        /\ retryDelay < 30000 => retryDelay' > retryDelay
                        /\ failedSaveQueue' = <<t.clients[1]>> \o failedSaveQueue
                        /\ retryTimer' = [state |-> "armed", delay |-> retryDelay']]_vars

\* C10 happens: after enough failed retries the delay stands at the cap and
\* the retry timer is armed with it, the failed payload at the head of the queue
C10_Witness ==
    /\ retryDelay = 30000
    /\ retryTimer = [state |-> "armed", delay |-> 30000]
    /\ Len(failedSaveQueue) > 0
    /\ Head(failedSaveQueue) = <<"a">>

\* C5: when the probe of a debounced push is answered while the remote file is
\* newer than the baseline by more than the tolerance, no upload is started, a
\* sync-conflict event carrying baseline and remote time is emitted, the remote
\* file is untouched and the pending payload is still held; when the remote file
\* is newer by the tolerance or less, no event is emitted and the upload of the
\* pending payload starts
C5_ConflictBlocksPush ==
    [][\A t \in BagToSet(tasks), outcome \in ProbeOutcomes :
          (PushMetadata(t, outcome) /\ pendingClients # None /\ drive # None)
             => IF IsConflict(drive[1].modifiedTime, LastSyncTime)
                THEN /\ lastEvent' = SyncConflict(LastSyncTime, drive[1].modifiedTime)
                     /\ tasks' = Finish(tasks, t)
                     /\ drive' = drive
                     /\ pendingClients' = pendingClients
                ELSE /\ lastEvent' = lastEvent
                     /\ \E u \in BagToSet(tasks') :
                           u.kind = "push" /\ u.pc = "upload" /\ u.clients = pendingClients]_vars

\* C6: no automatic upload (debounced push, retry, flushPendingSaves) is started
\* over and replaces a remote file that is newer than the recorded baseline by
\* more than the tolerance
C6_NeverOverwritesNewer == overwrote = "none"

\* nothing is scheduled and nothing is awaited: the session does nothing more
\* until the next call or event
Idle ==
    /\ tasks = EmptyBag
    /\ saveTimeout # "armed"
    /\ orphanTimers = 0
    /\ retryTimer.state # "armed"

\* C7: a non-empty collection saved while offline has been sent in one upload
\* attempt once the session is back online with a credential and has come to rest
C7_OfflineSaveUploadedOnline ==
    (offlineSave # None /\ offlineSave[1].online /\ Len(offlineSave[1].clients) > 0 /\ Idle)
       => offlineSave[1].attempts = 1

\* uploads of the debounced push and of the retry loop that await their reply
UploadsAwaited ==
    {t \in BagToSet(tasks) : t.pc = "upload" /\ t.kind \in {"push", "retry"}}

\* C11: the retry loop never starts the upload of a queued payload while an
\* upload of a retry or of a debounced push is still awaiting its reply
C11_RetryStartsAlone ==
    [][(RetryTimerFire /\ tasks' # tasks) => UploadsAwaited = {}]_vars

\* debounce timers that are armed: the one saveTimeout names and the ones whose
\* id was dropped while they were armed
ArmedSaveTimers == orphanTimers + (IF saveTimeout = "armed" THEN 1 ELSE 0)

\* C12: at most one debounce timer is armed at any time
C12_OneDebounceTimer == ArmedSaveTimers <= 1

\* C13: when logout has completed no debounce timer and no retry timer is armed
\* and the pending payload and the retry queue are empty, so that nothing is
\* left to start an upload afterwards
C13_LogoutLeavesNothingArmed ==
    [][\A t \in BagToSet(tasks) :
          LogoutDone(t)
             => /\ ArmedSaveTimers' = 0
                /\ retryTimer'.state # "armed"
                /\ pendingClients' = None
                /\ failedSaveQueue' = <<>>]_vars

\* the upload flushPendingSaves starts for the pending payload
FlushTask == Task("flush", "upload", pendingClients, None)

\* C14: flushPendingSaves cancels the debounce timer saveTimeout names and,
\* online with a credential and a payload pending, starts exactly one upload of
\* that payload, otherwise none; when the upload succeeds the pending payload
\* is cleared and the recorded remote time is the one of the upload; when it
\* fails nothing is queued for retry, no retry timer is armed and the payload
\* stays pending
C14_FlushPushesOnce ==
    /\ [][FlushPendingSaves
             => /\ saveTimeout' = "null"
                /\ ArmedSaveTimers' = orphanTimers
                /\ tasks' = IF pendingClients # None /\ isOnline /\ accessToken # NoToken
                            THEN tasks (+) SetToBag({FlushTask})
                            ELSE tasks
                /\ UNCHANGED <<pendingClients, failedSaveQueue, retryTimer, drive,
                               lsClients, lsSynced, lsDriveSync>>]_vars
    /\ [][\A t \in BagToSet(tasks), outcome \in UploadOutcomes :
             FlushUpload(t, outcome)
                => /\ tasks' = tasks (-) SetToBag({t})
                   /\ UNCHANGED <<failedSaveQueue, retryTimer, saveTimeout, orphanTimers>>
                   /\ IF outcome = "ok"
                      THEN /\ pendingClients' = None
                           /\ drive' # None
                           /\ drive'[1].clients = t.clients[1]
                           /\ lsDriveSync' = drive'[1].modifiedTime
                      ELSE UNCHANGED <<pendingClients, drive, lsDriveSync>>]_vars

\* C14 happens: a flush made while [a, b] was pending and the timer armed has
\* uploaded [a, b] before any debounced push did
C14_Witness ==
    /\ pendingClients = None
    /\ saveTimeout = "null"
    /\ drive # None
    /\ drive[1].clients = <<"a", "b">>
    /\ lsDriveSync = drive[1].modifiedTime
    /\ burst.phase = "flushed"
    /\ burst.pushes = 0

\* the collection the local cache holds, read as loadClients reads it
CachedClients == IF lsClients = None THEN <<>> ELSE JSONparse(lsClients[1]).items

\* C15: when the local cache holds a non-empty collection, loadClients returns
\* exactly that collection in the step of the call itself, whatever the remote
\* file holds and whether or not the session is online; that step leaves the
\* cache, both timestamps and the events alone, so the background sync it
\* starts changes the cache only in a later step
C15_LoadReturnsCacheAtOnce ==
    [][(LoadClients /\ Len(CachedClients) > 0) =>
          /\ last'.op = "loadClients"
          /\ last'.ret = Some(CachedClients)
          /\ UNCHANGED <<lsClients, lsSynced, lsDriveSync, lastEvent>>
          /\ \A t \in BagToSet(tasks') : BagIn(t, tasks) \/ (t.kind = "sync" /\ t.pc = "meta")]_vars

\* loadClients has just returned the cached [a] while the remote file holds
\* other records and the background sync it started awaits its probe
C15_Witness ==
    /\ last.op = "loadClients"
    /\ last.ret = Some(<<"a">>)
    /\ lsClients = Some(JSONstringify(<<"a">>))
    /\ drive # None
    /\ drive[1].clients # <<"a">>
    /\ \E t \in BagToSet(tasks) : t.kind = "sync" /\ t.pc = "meta"

\* what every step of loadClients leaves alone besides the cache and its
\* bookkeeping
LoadFrame ==
    UNCHANGED <<isOnline, accessToken, saveTimeout, orphanTimers, pendingClients,
                lastKnownCount, failedSaveQueue, retryTimer, retryDelay, lsToken,
                drive, lastEvent>>

\* C16: with an empty local cache loadClients, online with a credential, starts
\* one download; when the download returns the remote document the cache is
\* set to its records and the last-local-save time to now, then the remote is
\* probed, the last-known-remote-modified time is set (to the probed time, or
\* to now when the probe fails) and the downloaded records are returned.  When
\* the download fails or the remote holds no document, and when the session is
\* offline or has no credential, it returns the empty collection and leaves
\* the cache and both timestamps as they were.
C16_EmptyCacheLoad ==
    /\ [][(LoadClients /\ Len(CachedClients) = 0) =>
             /\ LoadFrame
             /\ UNCHANGED <<lsClients, lsSynced, lsDriveSync>>
             /\ last'.op = "loadClients"
             /\ IF isOnline /\ accessToken # NoToken
                THEN /\ last'.ret = None
                     /\ tasks' = tasks (+) SetToBag({Task("load", "download", None, None)})
                ELSE /\ last'.ret = Some(<<>>)
                     /\ tasks' = tasks]_vars
    /\ [][\A t \in BagToSet(tasks), outcome \in ProbeOutcomes :
             LoadDownload(t, outcome) =>
                /\ LoadFrame
                /\ UNCHANGED lsDriveSync
                /\ IF outcome = "ok" /\ drive # None
                   THEN /\ CachedClients' = drive[1].clients
                        /\ lsSynced' = now
                        /\ last'.ret = None
                        /\ tasks' = (tasks (-) SetToBag({t})) (+)
                                    SetToBag({Task("load", "meta", Some(drive[1].clients), None)})
                   ELSE /\ last'.ret = Some(<<>>)
                        /\ tasks' = tasks (-) SetToBag({t})
                        /\ UNCHANGED <<lsClients, lsSynced>>]_vars
    /\ [][\A t \in BagToSet(tasks), outcome \in ProbeOutcomes :
             LoadMetadata(t, outcome) =>
                /\ LoadFrame
                /\ UNCHANGED <<lsClients, lsSynced>>
                /\ lsDriveSync' = IF outcome = "ok" /\ drive # None
                                  THEN drive[1].modifiedTime ELSE now
                /\ last'.ret = t.clients
                /\ tasks' = tasks (-) SetToBag({t})]_vars

\* loadClients has returned the records it downloaded into an empty cache
C16_Witness ==
    /\ last.op = "loadMeta"
    /\ last.ret = Some(<<"b">>)
    /\ CachedClients = <<"b">>
    /\ lsSynced # NoTime
    /\ drive # None
    /\ lsDriveSync = drive[1].modifiedTime

\* a step wrote the cache, one of its timestamps or an event
CacheTouched ==
    <<lsClients, lsSynced, lsDriveSync, lastEvent>>' # <<lsClients, lsSynced, lsDriveSync, lastEvent>>

\* C17: a step of syncFromDrive replaces the local cache only when the remote
\* file's modified time is strictly newer than the last-known-remote-modified
\* time; when it does, the cache becomes exactly the remote records, the
\* last-local-save time and the last-known-remote-modified time are set and
\* clients-updated is dispatched; every other step of syncFromDrive leaves the
\* cache, both timestamps and the events as they were
C17_SyncOnlyWhenRemoteNewer ==
    /\ [][\A t \in BagToSet(tasks), outcome \in ProbeOutcomes :
             SyncMetadata(t, outcome) => ~CacheTouched]_vars
    /\ [][\A t \in BagToSet(tasks), outcome \in ProbeOutcomes :
             (SyncDownload(t, outcome) /\ CacheTouched) =>
                /\ drive # None
                /\ drive[1].modifiedTime > lsDriveSync
                /\ CachedClients' = drive[1].clients
                /\ lsSynced' = now
                /\ lsDriveSync' # NoTime
                /\ lastEvent' = ClientsUpdated]_vars

\* C18: when the upload of a debounced push succeeds, the
\* last-known-remote-modified time becomes the modified time the upload gave
\* the remote file, the remote file holds the uploaded payload and nothing is
\* pending; and while no other writer touches the remote file no push cycle's
\* conflict check raises a conflict
C18_OwnUploadIsBaseline ==
    /\ [][\A t \in BagToSet(tasks) :
             PushUpload(t, "ok") =>
                /\ drive' # None
                /\ drive'[1].clients = t.clients[1]
                /\ lsDriveSync' = drive'[1].modifiedTime
                /\ pendingClients' = None]_vars
    /\ [][\A t \in BagToSet(tasks), outcome \in ProbeOutcomes :
             PushMetadata(t, outcome) => lastEvent' = lastEvent]_vars
    /\ [](lastEvent.type # "sync-conflict")

\* a second push cycle has passed its conflict check and awaits its upload,
\* after this session's own upload gave the remote file a modified time that
\* lies more than the tolerance after the session's start
C18_Witness ==
    /\ drive # None
    /\ drive[1].clients # <<"b">>
    /\ lsDriveSync = drive[1].modifiedTime
    /\ lsDriveSync > ConflictToleranceMs
    /\ lastEvent = NoEvent
    /\ \E t \in BagToSet(tasks) :
          /\ t.kind = "push" /\ t.pc = "upload"
          /\ t.meta = Some(drive[1].modifiedTime)
          /\ t.clients # Some(drive[1].clients)

\* a saveToDrive call has ended
SaveEnded == driveCall.fn = "saveToDrive" /\ driveCall.pc = "done"

\* C19: a 404 reply to the upload on a cached file handle clears both cached
\* handles and starts the locate+upload sequence once more; one saveToDrive
\* call runs at most two sequences and makes at most two uploads; a second
\* sequence is started only after a 404-class failure; and the call resolves
\* only when the remote accepted the upload, every other outcome being an
\* error given to the caller
C19_SaveRetriesOnceOn404 ==
    /\ [][(UpdateReply(ErrNotFound) /\ driveCall.retry /\ cachedFileId # None) =>
             /\ cachedFolderId' = None
             /\ cachedFileId' = None
             /\ driveCall'.sequences = 2
             /\ driveCall'.pc = "folderSearch"]_vars
    /\ [](driveCall.sequences <= 2 /\ driveCall.attempts <= 2)
    /\ [][(driveCall.sequences = 1 /\ driveCall'.sequences = 2) =>
             driveCall'.failures[Len(driveCall'.failures)].reply = ErrNotFound]_vars
    /\ [](SaveEnded => (driveCall.result = "resolved" <=> driveCall.accepted))
    /\ [](SaveEnded /\ driveCall.result = "rejected" =>
             driveCall.message = driveCall.failures[Len(driveCall.failures)].reply)

\* a loadFromDrive call has ended
LoadEnded == driveCall.fn = "loadFromDrive" /\ driveCall.pc = "done"

\* C20: loadFromDrive returns null only when the remote holds no document; a
\* call that met a failed request, or that was made without a credential, ends
\* with an error given to the caller
C20_NullMeansNoDocument ==
    /\ [](LoadEnded /\ driveCall.result = "resolved" /\ driveCall.returned = None =>
             driveCall.failures = <<>>)
    /\ [](LoadEnded /\ driveCall.failures # <<>> => driveCall.result = "rejected")

\* a deleteDataFile call has ended
DeleteEnded == driveCall.fn = "deleteDataFile" /\ driveCall.pc = "done"

\* C21: deleteDataFile destroys no content: an accepted rename moves the
\* document's content to the renamed documents, takes the document out of the
\* lookups by name and clears the cached file handle, and renamed documents
\* keep their content; after a deleteDataFile call that returned, no document
\* carries the data-file name, so lookups and downloads return null and the
\* next upload creates a document; a rename that fails ends the call with that
\* error and leaves the cached handle as it was
C21_SoftDeleteHidesDocument ==
    /\ [][RenameReply("ok") =>
             /\ drive \in renamed'
             /\ liveFiles' = liveFiles - 1
             /\ cachedFileId' = None]_vars
    /\ [][renamed \subseteq renamed']_vars
    /\ [][\A reply \in CreateReplies \ {"ok"} :
             RenameReply(reply) =>
                /\ driveCall'.result = "rejected"
                /\ driveCall'.message = reply
                /\ UNCHANGED <<cachedFileId, drive, liveFiles, renamed>>]_vars
    /\ [](DeleteEnded /\ driveCall.result = "resolved" =>
             /\ liveFiles = 0
             /\ drive = None
             /\ cachedFileId = None)

\* C22: when the upload of a debounced push or of a retry fails with an
\* auth-class error, token-expired is dispatched and no retry timer is left
\* armed
C22_AuthFailureEmitsTokenExpired ==
    [][\A t \in BagToSet(tasks) :
          (PushUpload(t, ErrAuth) \/ RetryUpload(t, ErrAuth)) =>
             /\ lastEvent'.type = "token-expired"
             /\ retryTimer'.state # "armed"]_vars

-----------------------------------------------------------------------------
(* Download and upload again: loadFromDrive, then saveToDrive of what it    *)
(* returned (googleDriveService.ts:162-194, 197-273)                        *)

\* a first document is uploaded
FirstUpload(data) ==
    /\ driveCall.calls = 0
    /\ SaveToDrive(data)

\* loadFromDrive() once the upload before it was accepted
DownloadAgain ==
    /\ driveCall.fn = "saveToDrive"
    /\ driveCall.result = "resolved" /\ driveCall.accepted
    /\ LoadFromDriveCall

\* saveToDrive(data) with the document loadFromDrive has just returned
UploadDownloaded ==
    /\ driveCall.fn = "loadFromDrive"
    /\ driveCall.result = "resolved"
    /\ driveCall.returned # None
    /\ SaveToDrive(driveCall.returned[1])

InitRoundTrip == Initialized(0)

NextRoundTrip ==
    \/ \E c \in {<<"a">>, <<"a", "b">>}, user \in {None, Some("coach")} :
          FirstUpload(BackupData(c, user))
    \/ DownloadAgain
    \/ UploadDownloaded
    \/ \E reply \in SearchReplies : FolderSearchReply(reply)
    \/ \E reply \in CreateReplies : FolderCreateReply(reply)
    \/ \E reply \in SearchReplies : FileSearchReply(reply)
    \/ \E reply \in ContentReplies : UpdateReply(reply)
    \/ \E reply \in CreateReplies : CreateReply(reply)
    \/ \E reply \in ContentReplies : UploadReply(reply)
    \/ \E reply \in ContentReplies : DownloadReply(reply)

SpecRoundTrip == InitRoundTrip /\ [][NextRoundTrip]_vars

\* the records and the owner's profile of a remote document
Content(file) ==
    IF file = None THEN None
    ELSE Some([clients |-> file[1].clients, userProfile |-> file[1].userProfile])

\* C23: once a first document is on the remote, downloading it and uploading
\* what was downloaded leaves its records and its owner's profile as they
\* were, the first time and the second time alike; only the modified time may
\* change.  The document a download returns is the remote one, and the upload
\* that follows sends that document.
C23_DownloadUploadKeepsContent ==
    /\ [][driveCall.calls >= 2 => Content(drive') = Content(drive)]_vars
    /\ [](driveCall.fn = "loadFromDrive" /\ driveCall.result = "resolved"
              /\ driveCall.returned # None
            => Some(driveCall.returned[1]) = Content(drive))
    /\ [](driveCall.calls >= 3 /\ driveCall.fn = "saveToDrive"
            => Some(driveCall.data[1]) = Content(drive))

\* the second download-and-upload round has been accepted, for a document with
\* two records and no owner's profile
C23_Witness ==
    /\ driveCall.calls = 5
    /\ driveCall.fn = "saveToDrive"
    /\ driveCall.result = "resolved" /\ driveCall.accepted
    /\ drive # None
    /\ drive[1].clients = <<"a", "b">>
    /\ drive[1].userProfile = None

-----------------------------------------------------------------------------
\* C24: no upload of the coordinator replaces a remote document that holds
\* records with an empty collection, whatever the session has saved before.
C24_NeverWipesRemote ==
    [][\A t \in BagToSet(tasks), outcome \in UploadOutcomes :
          (PushUpload(t, outcome) \/ RetryUpload(t, outcome)) /\ drive # None
              /\ Len(drive[1].clients) > 0
            => drive' # None /\ Len(drive'[1].clients) > 0]_vars

\* the coordinator still holds payload c for the remote: pending, queued for a
\* retry, or in an upload that is awaiting its reply
HeldForRemote(c, pending, queue, calls) ==
    \/ pending = Some(c)
    \/ \E i \in 1..Len(queue) : queue[i] = c
    \/ \E u \in BagToSet(calls) : u.kind \in {"push", "retry"} /\ u.pc = "upload"
                                   /\ u.clients = Some(c)

\* C25: a payload saved while the upload of an earlier payload is awaiting its
\* reply is not lost: when that upload is answered, with success or with any
\* failure, the later payload is still pending, queued for a retry or in an
\* upload of its own.
C25_SaveDuringPushIsKept ==
    [][\A t \in BagToSet(tasks), outcome \in UploadOutcomes :
          PushUpload(t, outcome) /\ pendingClients # None /\ pendingClients # t.clients
            => HeldForRemote(pendingClients[1], pendingClients', failedSaveQueue', tasks')]_vars

\* C26: a retry never replaces a remote document that holds the collection of
\* the most recent accepted saveClients call with an older payload; and once
\* nothing is pending, queued, armed or in flight, after a run online without
\* a conflict and without another writer, the remote document holds the
\* collection of the most recent accepted saveClients call.
C26_RetryNeverOverwritesNewer ==
    /\ [][\A t \in BagToSet(tasks) :
             RetryUpload(t, "ok") /\ drive # None /\ drive[1].clients = CachedClients
                 /\ pendingClients = None /\ saveTimeout # "armed" /\ orphanTimers = 0
                 /\ (\A u \in BagToSet(tasks) : u.kind # "push")
               => drive'[1].clients = CachedClients]_vars
    /\ [](Quiet /\ burst.phase # "none" /\ lastEvent.type # "sync-conflict"
            => drive # None /\ drive[1].clients = CachedClients)

\* C27: while a payload is pending or the retry queue is not empty, the
\* download of a background sync leaves the local cache and its timestamps as
\* they are and announces no update, whether loadClients or the 'online' event
\* started the sync.
C27_SyncSparesLocalEdits ==
    [][\A t \in BagToSet(tasks), outcome \in ProbeOutcomes :
          SyncDownload(t, outcome) /\ (pendingClients # None \/ failedSaveQueue # <<>>)
            => /\ UNCHANGED <<lsClients, lsSynced, lsDriveSync>>
               /\ lastEvent' # ClientsUpdated]_vars

\* C28: a content upload answered with anything but acceptance makes
\* saveToDrive throw, on the path that overwrites the document and on the path
\* that has just created it: the call does not resolve with a modified time
\* unless the remote accepted the body.
C28_UploadFailureIsThrown ==
    /\ [][\A reply \in ContentReplies \ {"ok"} :
             UpdateReply(reply) => driveCall'.result # "resolved"]_vars
    /\ [][\A reply \in ContentReplies \ {"ok"} :
             UploadReply(reply) => driveCall'.result # "resolved"]_vars
    /\ [](SaveEnded /\ driveCall.returned # None => driveCall.accepted)

\* C29: saveToDrive creates a data document only when the folder holds none; a
\* lookup that fails does not lead to a creation, and the folder never holds
\* more than one live data document.
C29_AtMostOneDocument ==
    /\ [][CreateReply("ok") => liveFiles = 0]_vars
    /\ [][\A reply \in SearchReplies \ {"found", "none"} :
             FileSearchReply(reply) => driveCall'.pc # "create"]_vars
    /\ [](liveFiles <= 1)

-----------------------------------------------------------------------------
\* deleteAccount called amid saves, debounced pushes and retries; the
\* application calls saveClients before the deletion or after it, not while
\* deleteAccount awaits the remote
InitDelete == Initialized(MaxConflictSaves)

SaveOutsideDelete(c) ==
    /\ \A t \in BagToSet(tasks) : t.kind # "delete"
    /\ SaveClients(c)

NextDelete ==
    \/ \E c \in {<<"a">>, <<"a", "b">>} : SaveOutsideDelete(c)
    \/ \E orphan \in BOOLEAN : SaveTimerFire(orphan)
    \/ \E t \in BagToSet(tasks), outcome \in ProbeOutcomes : PushMetadata(t, outcome)
    \/ \E t \in BagToSet(tasks), outcome \in UploadOutcomes : PushUpload(t, outcome)
    \/ RetryTimerFire
    \/ \E t \in BagToSet(tasks), outcome \in UploadOutcomes : RetryUpload(t, outcome)
    \/ DeleteAccount
    \/ \E t \in BagToSet(tasks), outcome \in ProbeOutcomes : DeleteRemote(t, outcome)

SpecDelete == InitDelete /\ [][NextDelete]_vars

\* what deleteAccount leaves when it returns true: no cache key, no credential,
\* nothing pending or queued, no live remote data document
AccountGone ==
    /\ lsClients = None
    /\ lsUser = None
    /\ lsSynced = NoTime
    /\ lsDriveSync = NoTime
    /\ lsToken = NoToken
    /\ accessToken = NoToken
    /\ pendingClients = None
    /\ failedSaveQueue = <<>>
    /\ drive = None
    /\ liveFiles = 0

\* C30: a deleteAccount that returns true leaves no cache key, no credential,
\* no pending or queued payload and no live remote data document, and no reply
\* or timer of a push or retry that was under way when it was called brings
\* any of them back: only a new saveClients call can.
C30_DeletedStaysDeleted ==
    /\ [][\A t \in BagToSet(tasks) : DeleteRemote(t, "ok") => AccountGone']_vars
    /\ [][AccountGone /\ ~IsSave => AccountGone']_vars

====
